---- MODULE Spec2Model ----
(***************************************************************************)
(* Model of crates/djangofmt/src/options.rs: the Profile enumeration and   *)
(* its textual constructors, the DjangoFmtOptions defaults, the decoding   *)
(* of a pyproject.toml document into options, the upward search for the    *)
(* nearest pyproject.toml, and load_options.                               *)
(*                                                                         *)
(* Text that the program compares byte for byte (profile tokens, error     *)
(* messages, TOML string values) is a sequence of one-character strings,   *)
(* so that "django" and "Django" are different values.  A path is a        *)
(* sequence of component names, the root being the empty sequence.         *)
(***************************************************************************)
EXTENDS Integers, Sequences, FiniteSets

(***************************************************************************)
(* Bounds                                                                  *)
(***************************************************************************)
\* Number of directories below the root in the modelled directory chain.
MaxDepth == 2

(***************************************************************************)
(* Text                                                                    *)
(***************************************************************************)
TokDjangoLower == <<"d", "j", "a", "n", "g", "o">>
TokJinjaLower == <<"j", "i", "n", "j", "a">>
TokDjangoVariant == <<"D", "j", "a", "n", "g", "o">>
TokJinjaVariant == <<"J", "i", "n", "j", "a">>
TokInvalid == <<"i", "n", "v", "a", "l", "i", "d">>
TokTwig == <<"t", "w", "i", "g">>
TokFoo == <<"f", "o", "o">>
TokBar == <<"b", "a", "r">>

\* The two literal pieces of the format! string of Profile::try_from.
MsgPrefix == <<"I", "n", "v", "a", "l", "i", "d", " ", "p", "r", "o", "f", "i", "l", "e", ":", " ", "'">>
MsgSuffix == <<"'", ".", " ", "V", "a", "l", "i", "d", " ", "o", "p", "t", "i", "o", "n", "s", " ", "a", "r", "e", " ", "'", "d", "j", "a", "n", "g", "o", "'", " ", "o", "r", " ", "'", "j", "i", "n", "j", "a", "'">>

\* The needle of test_profile_from_str_invalid.
NeedleInvalidProfile == <<"I", "n", "v", "a", "l", "i", "d", " ", "p", "r", "o", "f", "i", "l", "e">>

\* str::contains: needle occurs as a contiguous run of text.
Contains(text, needle) ==
    \E k \in 0..(Len(text) - Len(needle)) :
        \A j \in 1..Len(needle) : text[k + j] = needle[j]

UpperOf(c) ==
    CASE c = "d" -> "D" [] c = "j" -> "J" [] c = "a" -> "A" [] c = "n" -> "N"
      [] c = "g" -> "G" [] c = "o" -> "O" [] c = "i" -> "I" [] c = "t" -> "T"
      [] c = "w" -> "W" [] c = "v" -> "V" [] c = "l" -> "L"
      [] OTHER -> c

LowerOf(c) ==
    CASE c = "D" -> "d" [] c = "J" -> "j" [] c = "A" -> "a" [] c = "N" -> "n"
      [] c = "G" -> "g" [] c = "O" -> "o" [] c = "I" -> "i" [] c = "T" -> "t"
      [] c = "W" -> "w" [] c = "V" -> "v" [] c = "L" -> "l"
      [] OTHER -> c

ToLower(s) == [j \in 1..Len(s) |-> LowerOf(s[j])]

\* Every spelling of the word w that differs from it only in letter case.
CaseVariants(w) ==
    {s \in [1..Len(w) -> {w[j] : j \in 1..Len(w)} \cup {UpperOf(w[j]) : j \in 1..Len(w)}] :
        \A j \in 1..Len(w) : s[j] \in {w[j], UpperOf(w[j])}}

\* The tokens handed to Profile::from_str / Profile::try_from.
Tokens ==
    CaseVariants(TokDjangoLower) \cup CaseVariants(TokJinjaLower)
        \cup CaseVariants(TokTwig) \cup {<<>>, TokInvalid}

(***************************************************************************)
(* Profile                                                                 *)
(***************************************************************************)
Profile == {"Django", "Jinja"}

\* #[default] Django
ProfileDefault == "Django"

OkProfile(p) == [ok |-> TRUE, v |-> p, msg |-> <<>>]
ErrProfile(m) == [ok |-> FALSE, v |-> "", msg |-> m]

\* Variant of try_from that compares without regard to letter case.
try_from_ignore_case(s) ==
    CASE ToLower(s) = TokDjangoLower -> OkProfile("Django")
      [] ToLower(s) = TokJinjaLower -> OkProfile("Jinja")
      [] OTHER -> ErrProfile(MsgPrefix \o s \o MsgSuffix)

\* impl TryFrom<&str> for Profile
try_from(s) ==
    CASE s = TokDjangoLower -> OkProfile("Django")
      [] s = TokJinjaLower -> OkProfile("Jinja")
      [] OTHER -> ErrProfile(MsgPrefix \o s \o MsgSuffix)

\* impl FromStr for Profile
from_str(s) == try_from(s)

(***************************************************************************)
(* TOML values                                                             *)
(*                                                                         *)
(* A parsed value is an integer, a string, an array or a table; a table is *)
(* a function from the keys that were written to their values, so a key    *)
(* that was not written is not in its domain.                              *)
(***************************************************************************)
TInt(n) == [t |-> "int", i |-> n]
TStr(s) == [t |-> "str", s |-> s]
TArr(a) == [t |-> "arr", a |-> a]
TTable(kv) == [t |-> "table", kv |-> kv]

\* The table holding the pairs of kv whose key is in keys.
Restrict(kv, keys) == [k \in keys |-> kv[k]]

\* The file text: either not valid TOML, or the root table it denotes.
Document(root) == [syntax |-> TRUE, root |-> root]
MalformedDocument == [syntax |-> FALSE, root |-> <<>>]

(***************************************************************************)
(* DjangoFmtOptions                                                        *)
(***************************************************************************)
DefaultLineLength == 120
DefaultIndentWidth == 4

Options(ll, iw, cb, pr) ==
    [line_length |-> ll, indent_width |-> iw, custom_blocks |-> cb, profile |-> pr]

\* impl Default for DjangoFmtOptions
DjangoFmtOptionsDefault ==
    Options(DefaultLineLength, DefaultIndentWidth, <<>>, ProfileDefault)

(***************************************************************************)
(* Deserialization (serde derive, toml::from_str)                          *)
(***************************************************************************)
DeOk(v) == [ok |-> TRUE, v |-> v]
DeErr == [ok |-> FALSE, v |-> <<>>]

\* usize: a non-negative integer (the modelled integers are far below the
\* upper end of usize).
de_usize(v) == IF v.t = "int" /\ v.i >= 0 THEN DeOk(v.i) ELSE DeErr

\* Vec<String>: an array of strings, kept in the written order.
de_vec_string(v) ==
    IF v.t = "arr" /\ \A j \in 1..Len(v.a) : v.a[j].t = "str"
    THEN DeOk([j \in 1..Len(v.a) |-> v.a[j].s])
    ELSE DeErr

\* Variant of de_Profile that takes the default for an unknown name.
de_Profile_or_default(v) ==
    IF v.t # "str" THEN DeErr
    ELSE CASE v.s = TokDjangoVariant -> DeOk("Django")
           [] v.s = TokJinjaVariant -> DeOk("Jinja")
           [] OTHER -> DeOk(ProfileDefault)

\* #[derive(Deserialize)] enum Profile: a string equal to a variant's name.
de_Profile(v) ==
    IF v.t # "str" THEN DeErr
    ELSE CASE v.s = TokDjangoVariant -> DeOk("Django")
           [] v.s = TokJinjaVariant -> DeOk("Jinja")
           [] OTHER -> DeErr

\* Variant of de_DjangoFmtOptions that rejects keys other than the four
\* fields (deny_unknown_fields).
de_DjangoFmtOptions_deny_unknown(v) ==
    IF v.t # "table" \/ ~(DOMAIN v.kv \subseteq
            {"line_length", "indent_width", "custom_blocks", "profile"})
    THEN DeErr
    ELSE LET d == DjangoFmtOptionsDefault
             ll == IF "line_length" \in DOMAIN v.kv THEN de_usize(v.kv["line_length"]) ELSE DeOk(d.line_length)
             iw == IF "indent_width" \in DOMAIN v.kv THEN de_usize(v.kv["indent_width"]) ELSE DeOk(d.indent_width)
             cb == IF "custom_blocks" \in DOMAIN v.kv THEN de_vec_string(v.kv["custom_blocks"]) ELSE DeOk(d.custom_blocks)
             pr == IF "profile" \in DOMAIN v.kv THEN de_Profile(v.kv["profile"]) ELSE DeOk(d.profile)
         IN  IF ll.ok /\ iw.ok /\ cb.ok /\ pr.ok
             THEN DeOk(Options(ll.v, iw.v, cb.v, pr.v))
             ELSE DeErr

\* #[derive(Deserialize)] #[serde(default)] struct DjangoFmtOptions: each
\* field is the decoded value of its key when the key was written and the
\* field of Default::default() otherwise; other keys are skipped.
de_DjangoFmtOptions(v) ==
    IF v.t # "table" THEN DeErr
    ELSE LET d == DjangoFmtOptionsDefault
             ll == IF "line_length" \in DOMAIN v.kv THEN de_usize(v.kv["line_length"]) ELSE DeOk(d.line_length)
             iw == IF "indent_width" \in DOMAIN v.kv THEN de_usize(v.kv["indent_width"]) ELSE DeOk(d.indent_width)
             cb == IF "custom_blocks" \in DOMAIN v.kv THEN de_vec_string(v.kv["custom_blocks"]) ELSE DeOk(d.custom_blocks)
             pr == IF "profile" \in DOMAIN v.kv THEN de_Profile(v.kv["profile"]) ELSE DeOk(d.profile)
         IN  IF ll.ok /\ iw.ok /\ cb.ok /\ pr.ok
             THEN DeOk(Options(ll.v, iw.v, cb.v, pr.v))
             ELSE DeErr

\* Option<T>: None is [some |-> FALSE].
None == [some |-> FALSE, v |-> <<>>]
Some(v) == [some |-> TRUE, v |-> v]

\* Variant of de_Tool in which the djangofmt entry is required.
de_Tool_required(v) ==
    IF v.t # "table" \/ "djangofmt" \notin DOMAIN v.kv THEN DeErr
    ELSE LET o == de_DjangoFmtOptions(v.kv["djangofmt"])
         IN  IF o.ok THEN DeOk([djangofmt |-> Some(o.v)]) ELSE DeErr

\* struct Tool { djangofmt: Option<DjangoFmtOptions> }
de_Tool(v) ==
    IF v.t # "table" THEN DeErr
    ELSE IF "djangofmt" \notin DOMAIN v.kv THEN DeOk([djangofmt |-> None])
    ELSE LET o == de_DjangoFmtOptions(v.kv["djangofmt"])
         IN  IF o.ok THEN DeOk([djangofmt |-> Some(o.v)]) ELSE DeErr

\* struct PyProject { tool: Option<Tool> }
de_PyProject(v) ==
    IF v.t # "table" THEN DeErr
    ELSE IF "tool" \notin DOMAIN v.kv THEN DeOk([tool |-> None])
    ELSE LET tl == de_Tool(v.kv["tool"])
         IN  IF tl.ok THEN DeOk([tool |-> Some(tl.v)]) ELSE DeErr

\* toml::from_str::<PyProject>
toml_from_str(content) ==
    IF ~content.syntax THEN DeErr ELSE de_PyProject(TTable(content.root))

\* fn load_options_from_pyproject_toml
load_options_from_pyproject_toml(content) ==
    LET pyproject == toml_from_str(content)
    IN  IF ~pyproject.ok THEN DeErr
        ELSE \* pyproject.tool.and_then(|t| t.djangofmt).unwrap_or_default()
             LET tool == pyproject.v.tool
                 dj == IF tool.some THEN tool.v.djangofmt ELSE None
             IN  DeOk(IF dj.some THEN dj.v ELSE DjangoFmtOptionsDefault)

(***************************************************************************)
(* Paths and the filesystem                                                *)
(*                                                                         *)
(* The filesystem is a chain of directories Dir(0) (the root), Dir(1), ... *)
(* Dir(MaxDepth), each the parent of the next.  fs[i] describes the entry  *)
(* named pyproject.toml directly inside Dir(i): missing, a directory, or a *)
(* regular file with its text and whether it can be read as text.          *)
(***************************************************************************)
SettingsFileName == "pyproject.toml"
SourceFileName == "index.html"
DirNames == <<"proj", "app", "templates", "partials", "includes">>

Levels == 0..MaxDepth

Dir(i) == SubSeq(DirNames, 1, i)

\* Path::join
join(path, name) == Append(path, name)

\* Path::ancestors: the path itself, then its parent, and so on to the root.
ancestors_of(path) == [k \in 1..(Len(path) + 1) |-> SubSeq(path, 1, Len(path) + 1 - k)]

NoEntry == [kind |-> "none", readable |-> FALSE, content |-> MalformedDocument]
DirEntry == [kind |-> "dir", readable |-> FALSE, content |-> MalformedDocument]
FileEntry(readable, content) == [kind |-> "file", readable |-> readable, content |-> content]

\* What the filesystem f holds at path: "file", "dir" or "none".  A regular
\* file has no entries, and the directories named pyproject.toml are empty.
kind_at(f, path) ==
    IF \E i \in Levels : path = join(Dir(i), SettingsFileName)
    THEN f[Len(path) - 1].kind
    ELSE IF \E i \in Levels : path = Dir(i) THEN "dir"
    ELSE IF \E i \in Levels : path = join(Dir(i), SourceFileName) THEN "file"
    ELSE "none"

\* Variant of is_file that is Path::exists.
is_file_exists(f, path) == kind_at(f, path) # "none"

\* Path::is_file: the path exists and is a regular file.
is_file(f, path) == kind_at(f, path) = "file"

\* fs::read_to_string: the text of a readable regular file, an error otherwise.
read_to_string(f, path) ==
    IF \E i \in Levels : path = join(Dir(i), SettingsFileName)
    THEN LET e == f[Len(path) - 1]
         IN  IF e.kind = "file" /\ e.readable THEN DeOk(e.content) ELSE DeErr
    ELSE DeErr

\* fn find_pyproject_toml, as the loop computes it over the ancestors left.
RECURSIVE find_from(_, _)
find_from(f, rest) ==
    IF rest = <<>> THEN None
    ELSE LET pyproject_toml == join(Head(rest), SettingsFileName)
         IN  IF is_file(f, pyproject_toml) THEN Some(pyproject_toml)
             ELSE find_from(f, Tail(rest))

\* Variant of find_pyproject_toml that walks from the root inward.
find_pyproject_toml_farthest(f, start) ==
    find_from(f, [k \in 1..(Len(start) + 1) |-> SubSeq(start, 1, k - 1)])

find_pyproject_toml(f, start) == find_from(f, ancestors_of(start))

(***************************************************************************)
(* LoadOptionsError and the result of load_options                         *)
(***************************************************************************)
Pending == [tag |-> "Pending", err |-> "", path |-> <<>>, options |-> <<>>]
OkOptions(o) == [tag |-> "Ok", err |-> "", path |-> <<>>, options |-> o]
FileNotFound == [tag |-> "Err", err |-> "FileNotFound", path |-> <<>>, options |-> <<>>]
IoError(path) == [tag |-> "Err", err |-> "IoError", path |-> path, options |-> <<>>]
ParseError(path) == [tag |-> "Err", err |-> "ParseError", path |-> path, options |-> <<>>]

(***************************************************************************)
(* Inputs                                                                  *)
(***************************************************************************)
Absent == [t |-> "absent"]

FieldKeys == {"line_length", "indent_width", "custom_blocks", "profile"}
UnknownKey == "line_width"

\* What may be written for each key of [tool.djangofmt].
LineLengthChoices == {Absent, TInt(200), TInt(-1)}
IndentWidthChoices == {Absent, TInt(4), TInt(2)}
CustomBlocksChoices == {Absent, TArr(<<TStr(TokFoo), TStr(TokBar)>>)}
ProfileChoices ==
    {Absent, TStr(TokDjangoVariant), TStr(TokJinjaVariant), TStr(TokDjangoLower),
     TStr(TokJinjaLower), TStr(TokInvalid), TStr(TokTwig)}
UnknownChoices == {Absent, TInt(1)}

\* The [tool.djangofmt] tables: every combination of written and omitted keys,
\* and three tables with a value of the wrong type.
DjangoFmtTables ==
    {Restrict(r, {k \in DOMAIN r : r[k] # Absent}) :
        r \in [line_length : LineLengthChoices, indent_width : IndentWidthChoices,
               custom_blocks : CustomBlocksChoices, profile : ProfileChoices,
               line_width : UnknownChoices]}
    \cup {[line_length |-> TStr(TokFoo)],
          [custom_blocks |-> TArr(<<TStr(TokFoo), TInt(1)>>)],
          [profile |-> TInt(1)]}

OneKey(k, v) == [x \in {k} |-> v]

\* The file texts: not TOML; no tool table; a tool entry that is not a table;
\* a tool table without djangofmt; a djangofmt entry that is not a table; and
\* every [tool.djangofmt] table.
Documents ==
    {MalformedDocument, Document(<<>>), Document(OneKey("project", TTable(<<>>))),
     Document(OneKey("tool", TInt(1))), Document(OneKey("tool", TTable(<<>>))),
     Document(OneKey("tool", TTable(OneKey("ruff", TTable(<<>>))))),
     Document(OneKey("tool", TTable(OneKey("djangofmt", TInt(1)))))}
    \cup {Document(OneKey("tool", TTable(OneKey("djangofmt", TTable(t))))) : t \in DjangoFmtTables}

\* The settings file of test_load_options_from_pyproject_toml, with the
\* profile spelled as a variant name.
FullTable ==
    [line_length |-> TInt(200), indent_width |-> TInt(4),
     custom_blocks |-> TArr(<<TStr(TokFoo), TStr(TokBar)>>),
     profile |-> TStr(TokJinjaVariant)]
FullDocument == Document(OneKey("tool", TTable(OneKey("djangofmt", TTable(FullTable)))))

\* One pyproject.toml varies over every text and readability; the others
\* present are a valid file, a malformed file or an unreadable file.
PrimaryEntries ==
    {FileEntry(TRUE, d) : d \in Documents} \cup {FileEntry(FALSE, FullDocument)}
SecondaryEntries ==
    {FileEntry(TRUE, FullDocument), FileEntry(TRUE, MalformedDocument),
     FileEntry(FALSE, FullDocument)}

Filesystems ==
    {[i \in Levels |->
        IF kinds[i] = "none" THEN NoEntry
        ELSE IF kinds[i] = "dir" THEN DirEntry
        ELSE IF i = k THEN e ELSE x] :
     kinds \in [Levels -> {"none", "dir", "file"}], k \in Levels,
     e \in PrimaryEntries, x \in SecondaryEntries}

\* A directory of the chain, a regular file in one, or a pyproject.toml path.
StartPaths ==
    {Dir(i) : i \in Levels}
        \cup {join(Dir(i), SourceFileName) : i \in Levels}
        \cup {join(Dir(i), SettingsFileName) : i \in Levels}

EmptyFilesystem == [i \in Levels |-> NoEntry]

(***************************************************************************)
(* State                                                                   *)
(***************************************************************************)
VARIABLES
    op,               \* the entry point called
    fs,               \* the filesystem
    start_path,       \* load_options: the argument
    s,                \* from_str / try_from: the argument
    pc,               \* position in load_options, or "call" / "done"
    pyproject_path,   \* load_options: the located file
    content,          \* load_options: the text read
    result,           \* load_options: the value returned
    profile_result    \* from_str / try_from: the value returned

vars == <<op, fs, start_path, s, pc, pyproject_path, content, result, profile_result>>

Init ==
    /\ op \in {"load_options", "from_str", "try_from"}
    /\ IF op = "load_options"
       THEN /\ fs \in Filesystems
            /\ start_path \in StartPaths
            /\ s = <<>>
            /\ pc = "find"
       ELSE /\ fs = EmptyFilesystem
            /\ start_path = <<>>
            /\ s \in Tokens
            /\ pc = "call"
    /\ pyproject_path = None
    /\ content = MalformedDocument
    /\ result = Pending
    /\ profile_result = ErrProfile(<<>>)

\* Variant of Find that returns the defaults when no file is located.
Find_or_default ==
    /\ op = "load_options" /\ pc = "find"
    /\ LET found == find_pyproject_toml(fs, start_path)
       IN  IF found.some
           THEN /\ pyproject_path' = found
                /\ pc' = "read"
                /\ result' = result
           ELSE /\ pyproject_path' = pyproject_path
                /\ pc' = "done"
                /\ result' = OkOptions(DjangoFmtOptionsDefault)
    /\ UNCHANGED <<op, fs, start_path, s, content, profile_result>>

\* load_options, lines 117-118: locate the file or return FileNotFound.
Find ==
    /\ op = "load_options" /\ pc = "find"
    /\ LET found == find_pyproject_toml(fs, start_path)
       IN  IF found.some
           THEN /\ pyproject_path' = found
                /\ pc' = "read"
                /\ result' = result
           ELSE /\ pyproject_path' = pyproject_path
                /\ pc' = "done"
                /\ result' = FileNotFound
    /\ UNCHANGED <<op, fs, start_path, s, content, profile_result>>

\* Variant of Read that returns the defaults when the file cannot be read.
Read_or_default ==
    /\ op = "load_options" /\ pc = "read"
    /\ LET text == read_to_string(fs, pyproject_path.v)
       IN  IF text.ok
           THEN /\ content' = text.v
                /\ pc' = "parse"
                /\ result' = result
           ELSE /\ content' = content
                /\ pc' = "done"
                /\ result' = OkOptions(DjangoFmtOptionsDefault)
    /\ UNCHANGED <<op, fs, start_path, s, pyproject_path, profile_result>>

\* load_options, lines 120-121: read the located file or return IoError.
Read ==
    /\ op = "load_options" /\ pc = "read"
    /\ LET text == read_to_string(fs, pyproject_path.v)
       IN  IF text.ok
           THEN /\ content' = text.v
                /\ pc' = "parse"
                /\ result' = result
           ELSE /\ content' = content
                /\ pc' = "done"
                /\ result' = IoError(pyproject_path.v)
    /\ UNCHANGED <<op, fs, start_path, s, pyproject_path, profile_result>>

\* Variant of Parse whose ParseError carries the starting path.
Parse_reports_start_path ==
    /\ op = "load_options" /\ pc = "parse"
    /\ LET r == load_options_from_pyproject_toml(content)
       IN  result' = IF r.ok THEN OkOptions(r.v) ELSE ParseError(start_path)
    /\ pc' = "done"
    /\ UNCHANGED <<op, fs, start_path, s, pyproject_path, content, profile_result>>

\* load_options, lines 123-124: decode the text or return ParseError.
Parse ==
    /\ op = "load_options" /\ pc = "parse"
    /\ LET r == load_options_from_pyproject_toml(content)
       IN  result' = IF r.ok THEN OkOptions(r.v) ELSE ParseError(pyproject_path.v)
    /\ pc' = "done"
    /\ UNCHANGED <<op, fs, start_path, s, pyproject_path, content, profile_result>>

\* Profile::from_str(s)
FromStr ==
    /\ op = "from_str" /\ pc = "call"
    /\ profile_result' = from_str(s)
    /\ pc' = "done"
    /\ UNCHANGED <<op, fs, start_path, s, pyproject_path, content, result>>

\* Profile::try_from(s)
TryFrom ==
    /\ op = "try_from" /\ pc = "call"
    /\ profile_result' = try_from(s)
    /\ pc' = "done"
    /\ UNCHANGED <<op, fs, start_path, s, pyproject_path, content, result>>

Next == Find \/ Read \/ Parse \/ FromStr \/ TryFrom

Spec == Init /\ [][Next]_vars

(***************************************************************************)
(* Vocabulary of the properties                                            *)
(***************************************************************************)
Loading == op = "load_options"
Returned == Loading /\ pc = "done"
Located == Loading /\ pc \in {"read", "parse", "done"}

\* The innermost directory of the starting path's ancestor chain.
StartLevel ==
    IF start_path # <<>> /\ start_path[Len(start_path)] \in {SourceFileName, SettingsFileName}
    THEN Len(start_path) - 1
    ELSE Len(start_path)

\* The chain directories holding a regular file named pyproject.toml.
FileLevels == {i \in 0..StartLevel : fs[i].kind = "file"}
DirLevels == {i \in 0..StartLevel : fs[i].kind = "dir"}

HasNearest == FileLevels # {}
NearestLevel == CHOOSE i \in FileLevels : \A j \in FileLevels : j <= i
NearestPath == join(Dir(NearestLevel), SettingsFileName)
NearestEntry == fs[NearestLevel]

\* The nearest settings file is readable and holds the document d.
NearestHolds(d) == HasNearest /\ NearestEntry.readable /\ NearestEntry.content = d

\* The nearest settings file is readable and holds a [tool.djangofmt] table.
NearestHasTable ==
    /\ HasNearest /\ NearestEntry.readable /\ NearestEntry.content.syntax
    /\ "tool" \in DOMAIN NearestEntry.content.root
    /\ NearestEntry.content.root["tool"].t = "table"
    /\ "djangofmt" \in DOMAIN NearestEntry.content.root["tool"].kv
    /\ NearestEntry.content.root["tool"].kv["djangofmt"].t = "table"
NearestTable == NearestEntry.content.root["tool"].kv["djangofmt"].kv

DocumentWith(t) == Document(OneKey("tool", TTable(OneKey("djangofmt", TTable(t)))))

(***************************************************************************)
(* C1                                                                      *)
(***************************************************************************)
\* C1: nearest wins.  Once load_options has located a file, that file is the
\* pyproject.toml of the innermost directory of the starting path's ancestor
\* chain that holds a regular file of that name, and the text handed to the
\* parser is that file's text, whatever the farther ancestors hold.
C1_NearestWins ==
    (Located /\ HasNearest) =>
        /\ pyproject_path = Some(NearestPath)
        /\ pc = "parse" => content = NearestEntry.content
        /\ result.tag = "Ok" =>
               result.options = load_options_from_pyproject_toml(NearestEntry.content).v

\* A settings file in the immediate directory and another in an ancestor,
\* with different texts, and the immediate one was read and decoded.
C1_Witness ==
    /\ Returned /\ result.tag = "Ok"
    /\ StartLevel \in FileLevels
    /\ \E j \in FileLevels : j < StartLevel /\ fs[j].content # fs[StartLevel].content
    /\ pyproject_path = Some(join(Dir(StartLevel), SettingsFileName))

(***************************************************************************)
(* C2                                                                      *)
(***************************************************************************)
C2_Table ==
    [line_length |-> TInt(200), indent_width |-> TInt(4),
     custom_blocks |-> TArr(<<TStr(TokFoo), TStr(TokBar)>>),
     profile |-> TStr(TokDjangoLower)]

\* C2: a settings file whose [tool.djangofmt] table is line_length=200,
\* indent_width=4, custom_blocks=['foo','bar'], profile='django' resolves to
\* exactly those values, profile Django, blocks in the written order.
C2_LowercaseProfileLoads ==
    (Returned /\ NearestHolds(DocumentWith(C2_Table))) =>
        result = OkOptions(Options(200, 4, <<TokFoo, TokBar>>, "Django"))

(***************************************************************************)
(* C3                                                                      *)
(***************************************************************************)
NoOverrideDocuments ==
    {Document(<<>>), Document(OneKey("project", TTable(<<>>))),
     Document(OneKey("tool", TTable(<<>>))),
     Document(OneKey("tool", TTable(OneKey("ruff", TTable(<<>>))))),
     DocumentWith(<<>>)}

\* C3: when the located file has no tool table, a tool table without a
\* djangofmt entry, or an empty [tool.djangofmt] table, load_options succeeds
\* with line_length=120, indent_width=4, custom_blocks=[] and profile=Django.
C3_AbsentSectionGivesDefaults ==
    (Returned /\ \E d \in NoOverrideDocuments : NearestHolds(d)) =>
        result = OkOptions(Options(120, 4, <<>>, "Django"))

\* A tool table that has other tools but no djangofmt entry was resolved.
C3_Witness ==
    /\ Returned
    /\ NearestHolds(Document(OneKey("tool", TTable(OneKey("ruff", TTable(<<>>))))))
    /\ result.tag = "Ok"

(***************************************************************************)
(* C4                                                                      *)
(***************************************************************************)
\* C4: when no directory of the ancestor chain holds a regular file named
\* pyproject.toml, nothing is located and load_options returns FileNotFound,
\* never a configuration, IoError or ParseError.
C4_NoFileIsFileNotFound ==
    (Loading /\ ~HasNearest) =>
        /\ pc \in {"find", "done"}
        /\ pyproject_path = None
        /\ pc = "done" => result = FileNotFound

\* A start two directories deep or more with no settings file above it.
C4_Witness ==
    /\ Returned /\ ~HasNearest /\ StartLevel >= 2
    /\ result = FileNotFound

C6_MalformedIsParseErrorWithPath ==
    (Returned /\ NearestHolds(MalformedDocument)) =>
        /\ result = ParseError(NearestPath)
        /\ result.path = pyproject_path.v

\* The malformed file is not at the starting path and a farther ancestor
\* holds another settings file.
C6_Witness ==
    /\ Returned /\ NearestHolds(MalformedDocument)
    /\ result.err = "ParseError"
    /\ start_path # NearestPath
    /\ \E j \in FileLevels : j < NearestLevel

(***************************************************************************)
(* C7                                                                      *)
(***************************************************************************)
\* C7: Profile::from_str and Profile::try_from return Ok(Django) exactly for
\* "django", Ok(Jinja) exactly for "jinja", and for every other string an Err
\* whose message contains "Invalid profile".
C7_ProfileParsingIsStrict ==
    (op \in {"from_str", "try_from"} /\ pc = "done") =>
        /\ s = TokDjangoLower => profile_result = OkProfile("Django")
        /\ s = TokJinjaLower => profile_result = OkProfile("Jinja")
        /\ s \notin {TokDjangoLower, TokJinjaLower} =>
               /\ ~profile_result.ok
               /\ Contains(profile_result.msg, NeedleInvalidProfile)

\* from_str("Django") was rejected.
C7_Witness ==
    /\ op = "from_str" /\ pc = "done"
    /\ s = TokDjangoVariant
    /\ ~profile_result.ok

(***************************************************************************)
(* C8                                                                      *)
(***************************************************************************)
\* The value a key of the table t denotes, for the field of that name.
WrittenValue(t, key) ==
    CASE key = "custom_blocks" -> [j \in 1..Len(t[key].a) |-> t[key].a[j].s]
      [] key = "profile" ->
            IF ToLower(t[key].s) = TokDjangoLower THEN "Django" ELSE "Jinja"
      [] OTHER -> t[key].i

BuiltInDefault(key) ==
    CASE key = "line_length" -> 120
      [] key = "indent_width" -> 4
      [] key = "custom_blocks" -> <<>>
      [] key = "profile" -> "Django"

\* Every written field of t has a value the decoder takes for its type.
WellTyped(t) ==
    /\ "line_length" \in DOMAIN t => (t["line_length"].t = "int" /\ t["line_length"].i >= 0)
    /\ "indent_width" \in DOMAIN t => (t["indent_width"].t = "int" /\ t["indent_width"].i >= 0)
    /\ "custom_blocks" \in DOMAIN t =>
           (t["custom_blocks"].t = "arr"
               /\ \A j \in 1..Len(t["custom_blocks"].a) : t["custom_blocks"].a[j].t = "str")
    /\ "profile" \in DOMAIN t =>
           (t["profile"].t = "str" /\ t["profile"].s \in {TokDjangoVariant, TokJinjaVariant})

C9_NoFallback ==
    (Returned /\ HasNearest) =>
        /\ ~NearestEntry.readable => result = IoError(NearestPath)
        /\ (NearestEntry.readable /\ ~load_options_from_pyproject_toml(NearestEntry.content).ok) =>
               result = ParseError(NearestPath)

\* The nearest file is unreadable while a farther ancestor holds a valid one.
C9_Witness ==
    /\ Returned /\ HasNearest /\ ~NearestEntry.readable
    /\ \E j \in FileLevels :
           /\ j < NearestLevel /\ fs[j].readable
           /\ load_options_from_pyproject_toml(fs[j].content).ok
    /\ result.err = "IoError"

(***************************************************************************)
(* C10                                                                     *)
(***************************************************************************)
\* C10: a directory named pyproject.toml is never matched.  The located path
\* is never such a directory; with directories of that name nearer than the
\* nearest regular file the regular file is located, and with only
\* directories of that name the result is FileNotFound.
C10_DirectoryNotMatched ==
    (Loading /\ pc # "find") =>
        /\ pyproject_path.some => kind_at(fs, pyproject_path.v) = "file"
        /\ \A i \in DirLevels : pyproject_path # Some(join(Dir(i), SettingsFileName))
        /\ (DirLevels # {} /\ HasNearest) => pyproject_path = Some(NearestPath)
        /\ (DirLevels # {} /\ ~HasNearest) => (pc = "done" /\ result = FileNotFound)

\* A directory named pyproject.toml in the immediate directory was skipped
\* and the regular file of an ancestor located.
C10_Witness ==
    /\ Located
    /\ StartLevel \in DirLevels
    /\ HasNearest /\ NearestLevel < StartLevel
    /\ pyproject_path = Some(NearestPath)

====
